---- MODULE Spec2Model ----
(***************************************************************************)
(* Model of the compliance bot of src/src/index.ts: the push handler, the *)
(* rule engine (analyzeFileForCompliance), the report aggregator          *)
(* (generateComplianceReport) and the report renderer                     *)
(* (formatComplianceReport).                                              *)
(*                                                                         *)
(* A JavaScript string is a sequence of one-character strings, so that    *)
(* replace, substring, the regular expressions and the property-key rules *)
(* of a plain object are computed rather than assumed.                    *)
(***************************************************************************)
EXTENDS Integers, Sequences, FiniteSets, TLC

VARIABLES payload, pc, idx, allViolations, getCommitCalls, responses,
          errorLog, report, reportBody, issueCalls, error, probe

vars == <<payload, pc, idx, allViolations, getCommitCalls, responses,
          errorLog, report, reportBody, issueCalls, error, probe>>

handlerVars == <<payload, pc, idx, allViolations, getCommitCalls, responses,
                 errorLog, report, reportBody, issueCalls, error>>

(***************************************************************************)
(* Bounds of the model.                                                    *)
(***************************************************************************)
\* commits in one push
MaxCommits == 2

\* changed files returned for one push, over all of its commits
MaxFiles == 2

\* fragments concatenated into one diff text of the rule-engine sweep
MaxFrags == 2

(***************************************************************************)
(* String literals of the source.                                          *)
(***************************************************************************)
S_refsHeads == <<"r","e","f","s","/","h","e","a","d","s","/">>

S_main == <<"m","a","i","n">>

S_master == <<"m","a","s","t","e","r">>

S_password == <<"p","a","s","s","w","o","r","d">>

S_passwd == <<"p","a","s","s","w","d">>

S_pwd == <<"p","w","d">>

S_api == <<"a","p","i">>

S_key == <<"k","e","y">>

S_apikey == <<"a","p","i","k","e","y">>

S_secret == <<"s","e","c","r","e","t">>

S_token == <<"t","o","k","e","n">>

S_awsId == <<"a","w","s","_","a","c","c","e","s","s","_","k","e","y","_","i","d">>

S_awsSecret == <<"a","w","s","_","s","e","c","r","e","t","_","a","c","c","e","s","s","_","k","e","y">>

S_consoleDot == <<"c","o","n","s","o","l","e",".">>

S_log == <<"l","o","g">>

S_debug == <<"d","e","b","u","g">>

S_info == <<"i","n","f","o">>

S_warn == <<"w","a","r","n">>

S_error == <<"e","r","r","o","r">>

S_todo == <<"t","o","d","o">>

S_fixme == <<"f","i","x","m","e">>

S_hack == <<"h","a","c","k">>

S_xxx == <<"x","x","x">>

S_eslintDisable == <<"e","s","l","i","n","t","-","d","i","s","a","b","l","e">>

S_tsIgnore == <<"@","t","s","-","i","g","n","o","r","e">>

S_tsNocheck == <<"@","t","s","-","n","o","c","h","e","c","k">>

S_eval == <<"e","v","a","l">>

(***************************************************************************)
(* JavaScript string operations.                                           *)
(***************************************************************************)
Min(a, b) == IF a <= b THEN a ELSE b

UpperCase == <<"A","B","C","D","E","F","G","H","I","J","K","L","M",
               "N","O","P","Q","R","S","T","U","V","W","X","Y","Z">>

LowerCase == <<"a","b","c","d","e","f","g","h","i","j","k","l","m",
               "n","o","p","q","r","s","t","u","v","w","x","y","z">>

Digits == <<"0","1","2","3","4","5","6","7","8","9">>

\* the lower-case letter of every upper-case letter
ToLower == [c \in {UpperCase[k] : k \in 1..26} |->
               LowerCase[CHOOSE k \in 1..26 : UpperCase[k] = c]]

\* canonicalisation of a character under the regular expression flag i
Fold(c) == IF c \in DOMAIN ToLower THEN ToLower[c] ELSE c

\* s with every character canonicalised, as the flag i compares it
FoldAll(s) == [k \in 1..Len(s) |-> Fold(s[k])]

\* the literal lit occurs in s at position i
LitAt(s, i, lit) ==
    /\ i >= 1
    /\ i + Len(lit) - 1 <= Len(s)
    /\ SubSeq(s, i, i + Len(lit) - 1) = lit

\* String.prototype.indexOf, 1-based; 0 when pat does not occur
IndexOf(s, pat) ==
    IF \E i \in 1..(Len(s) + 1) : LitAt(s, i, pat)
    THEN CHOOSE i \in 1..(Len(s) + 1) :
            /\ LitAt(s, i, pat)
            /\ \A j \in 1..(i - 1) : ~LitAt(s, j, pat)
    ELSE 0

\* String.prototype.replace with a string pattern: the first occurrence only
Replace(s, pat, rep) ==
    LET i == IndexOf(s, pat)
    IN  IF i = 0 THEN s
        ELSE SubSeq(s, 1, i - 1) \o rep \o SubSeq(s, i + Len(pat), Len(s))

\* String.prototype.substring(0, n)
Substring0(s, n) == SubSeq(s, 1, Min(n, Len(s)))

(***************************************************************************)
(* The regular expressions of analyzeFileForCompliance.                    *)
(***************************************************************************)
SpaceChars == {" ", "\t", "\n", "\r", "\f"}

QuoteChars == {"'", "\""}

WordChars ==
    {UpperCase[k] : k \in 1..26} \cup {LowerCase[k] : k \in 1..26}
    \cup {Digits[k] : k \in 1..10} \cup {"_"}

\* \s
IsSpace(c) == c \in SpaceChars

\* ['"]
IsQuote(c) == c \in QuoteChars

\* \w
IsWordChar(c) == c \in WordChars

\* \s*=\s*['"][^'"]+['"] matches in s from position j
AssignsQuotedAt(s, j) ==
    \E e \in j..Len(s) :
       /\ \A k \in j..(e - 1) : IsSpace(s[k])
       /\ s[e] = "="
       /\ \E q \in (e + 1)..Len(s) :
             /\ \A k \in (e + 1)..(q - 1) : IsSpace(s[k])
             /\ IsQuote(s[q])
             /\ \E r \in (q + 2)..Len(s) :
                   /\ \A k \in (q + 1)..(r - 1) : ~IsQuote(s[k])
                   /\ IsQuote(s[r])

\* (w1|w2|...)\s*=\s*['"][^'"]+['"] with the flag i; the names are kept in
\* lower case, like every literal of a pattern that carries the flag
AssignedName(s, names) ==
    LET t == FoldAll(s)
    IN  \E i \in 1..Len(s) : \E w \in names :
           LitAt(t, i, w) /\ AssignsQuotedAt(s, i + Len(w))

PasswordNames == {S_password, S_passwd, S_pwd}

SecretNames == {S_secret, S_token}

ConsoleMethods == {S_log, S_debug, S_info, S_warn, S_error}

TodoMarkers == {S_todo, S_fixme, S_hack, S_xxx}

LintDirectives == {S_eslintDisable, S_tsIgnore, S_tsNocheck}

\* /(password|passwd|pwd)\s*=\s*['"][^'"]+['"]/i
TestPassword(s) == AssignedName(s, PasswordNames)

\* /(api[_-]?key|apikey)\s*=\s*['"][^'"]+['"]/i
TestApiKey(s) ==
    LET t == FoldAll(s)
    IN  \E i \in 1..Len(s) :
           \/ /\ LitAt(t, i, S_api)
              /\ \/ LitAt(t, i + 3, S_key) /\ AssignsQuotedAt(s, i + 6)
                 \/ /\ i + 3 <= Len(s)
                    /\ (s[i + 3] = "_" \/ s[i + 3] = "-")
                    /\ LitAt(t, i + 4, S_key)
                    /\ AssignsQuotedAt(s, i + 7)
           \/ LitAt(t, i, S_apikey) /\ AssignsQuotedAt(s, i + 6)

\* /(secret|token)\s*=\s*['"][^'"]+['"]/i
TestSecret(s) == AssignedName(s, SecretNames)

\* /aws_access_key_id|aws_secret_access_key/i
TestAws(s) ==
    LET t == FoldAll(s)
    IN  \E i \in 1..Len(s) : LitAt(t, i, S_awsId) \/ LitAt(t, i, S_awsSecret)

\* /console\.(log|debug|info|warn|error)/
TestConsole(s) ==
    \E i \in 1..Len(s) :
       /\ LitAt(s, i, S_consoleDot)
       /\ \E w \in ConsoleMethods : LitAt(s, i + Len(S_consoleDot), w)

\* the places of s where /(TODO|FIXME|HACK|XXX):?/i matches
TodoPlaces(s) ==
    LET t == FoldAll(s)
    IN  {i \in 1..Len(s) : \E w \in TodoMarkers : LitAt(t, i, w)}

\* /(TODO|FIXME|HACK|XXX):?/i
TestTodo(s) == TodoPlaces(s) # {}

\* /(eslint-disable|@ts-ignore|@ts-nocheck)/
TestLintDisabled(s) ==
    \E i \in 1..Len(s) : \E w \in LintDirectives : LitAt(s, i, w)

\* /\beval\s*\(/
TestEval(s) ==
    \E i \in 1..Len(s) :
       /\ i = 1 \/ ~IsWordChar(s[i - 1])
       /\ LitAt(s, i, S_eval)
       /\ \E p \in (i + 4)..Len(s) :
             /\ \A k \in (i + 4)..(p - 1) : IsSpace(s[k])
             /\ s[p] = "("

(***************************************************************************)
(* Rule engine.                                                            *)
(***************************************************************************)
Violation(file, issue, severity) ==
    [file |-> file, issue |-> issue, severity |-> severity]

\* the patterns of secretPatterns, in the order of the array
SecretTest(k, patch) ==
    CASE k = 1 -> TestPassword(patch)
      [] k = 2 -> TestApiKey(patch)
      [] k = 3 -> TestSecret(patch)
      [] k = 4 -> TestAws(patch)

\* the issues of secretPatterns, in the order of the array
secretIssues ==
    << "Hardcoded password detected",
       "Hardcoded API key detected",
       "Hardcoded secret/token detected",
       "AWS credentials detected" >>

\* the loop over secretPatterns, from entry k on, pushing onto violations
RECURSIVE PushSecrets(_, _, _, _)
PushSecrets(violations, filename, patch, k) ==
    IF k > Len(secretIssues) THEN violations
    ELSE PushSecrets(
            IF SecretTest(k, patch)
            THEN Append(violations, Violation(filename, secretIssues[k], "high"))
            ELSE violations,
            filename, patch, k + 1)

\* the number of places of s where /(TODO|FIXME|HACK|XXX):?/i matches
TodoOccurrences(s) == Cardinality(TodoPlaces(s))

RECURSIVE Repeat(_, _, _)
Repeat(violations, v, n) ==
    IF n = 0 THEN violations ELSE Repeat(Append(violations, v), v, n - 1)

\* analyzeFileForCompliance pushing one violation for every TODO marker
analyzeFileForCompliance_perMatch(filename, patch) ==
    LET v4 == PushSecrets(<<>>, filename, patch, 1)
        v5 == IF TestConsole(patch)
              THEN Append(v4, Violation(filename,
                       "Console statements detected - use proper logging framework", "low"))
              ELSE v4
        v6 == Repeat(v5, Violation(filename,
                       "TODO/FIXME comments detected - should be tracked as issues", "low"),
                     TodoOccurrences(patch))
        v7 == IF TestLintDisabled(patch)
              THEN Append(v6, Violation(filename,
                       "Linting rules disabled - fix the underlying issue instead", "medium"))
              ELSE v6
        v8 == IF TestEval(patch)
              THEN Append(v7, Violation(filename, "Unsafe eval() usage detected", "high"))
              ELSE v7
    IN  v8

analyzeFileForCompliance(filename, patch) ==
    LET v4 == PushSecrets(<<>>, filename, patch, 1)
        v5 == IF TestConsole(patch)
              THEN Append(v4, Violation(filename,
                       "Console statements detected - use proper logging framework", "low"))
              ELSE v4
        v6 == IF TestTodo(patch)
              THEN Append(v5, Violation(filename,
                       "TODO/FIXME comments detected - should be tracked as issues", "low"))
              ELSE v5
        v7 == IF TestLintDisabled(patch)
              THEN Append(v6, Violation(filename,
                       "Linting rules disabled - fix the underlying issue instead", "medium"))
              ELSE v6
        v8 == IF TestEval(patch)
              THEN Append(v7, Violation(filename, "Unsafe eval() usage detected", "high"))
              ELSE v7
    IN  v8

(***************************************************************************)
(* Report aggregator.                                                      *)
(***************************************************************************)
\* violations.filter((v) => v.severity === severity).length
CountSeverity(violations, severity) ==
    Len(SelectSeq(violations, LAMBDA v : v.severity = severity))

\* generateComplianceReport with passed computed from the high bucket alone
generateComplianceReport_highOnly(violations) ==
    LET passed == CountSeverity(violations, "high") = 0
    IN  [ violations |-> violations,
          passed     |-> passed,
          summary    |-> IF passed
                         THEN [text |-> "All compliance checks passed!", counts |-> <<>>]
                         ELSE [text |-> "Found compliance violation(s):",
                               counts |-> << Len(violations),
                                             CountSeverity(violations, "high"),
                                             CountSeverity(violations, "medium"),
                                             CountSeverity(violations, "low") >>] ]

\* the summary is its fixed text and, when failing, the four counts it prints:
\* total, high, medium, low
generateComplianceReport(violations) ==
    LET passed == Len(violations) = 0
    IN  [ violations |-> violations,
          passed     |-> passed,
          summary    |-> IF passed
                         THEN [text |-> "All compliance checks passed!", counts |-> <<>>]
                         ELSE [text |-> "Found compliance violation(s):",
                               counts |-> << Len(violations),
                                             CountSeverity(violations, "high"),
                                             CountSeverity(violations, "medium"),
                                             CountSeverity(violations, "low") >>] ]

(***************************************************************************)
(* The plain object groupedByFile: an object literal {} inherits the       *)
(* properties of Object.prototype, and lists its own keys with the array   *)
(* indices first, in ascending order, then the other strings in the order  *)
(* they were created.  The object is the sequence of its own properties in *)
(* creation order.                                                         *)
(***************************************************************************)
S_constructor == <<"c","o","n","s","t","r","u","c","t","o","r">>

S_proto == <<"_","_","p","r","o","t","o","_","_">>

S_toString == <<"t","o","S","t","r","i","n","g">>

S_valueOf == <<"v","a","l","u","e","O","f">>

S_hasOwnProperty == <<"h","a","s","O","w","n","P","r","o","p","e","r","t","y">>

S_isPrototypeOf == <<"i","s","P","r","o","t","o","t","y","p","e","O","f">>

S_propertyIsEnumerable == <<"p","r","o","p","e","r","t","y","I","s","E","n","u","m","e","r","a","b","l","e">>

S_toLocaleString == <<"t","o","L","o","c","a","l","e","S","t","r","i","n","g">>

S_defineGetter == <<"_","_","d","e","f","i","n","e","G","e","t","t","e","r","_","_">>

S_defineSetter == <<"_","_","d","e","f","i","n","e","S","e","t","t","e","r","_","_">>

S_lookupGetter == <<"_","_","l","o","o","k","u","p","G","e","t","t","e","r","_","_">>

S_lookupSetter == <<"_","_","l","o","o","k","u","p","S","e","t","t","e","r","_","_">>

\* the property names every object literal inherits
ObjectPrototypeKeys ==
    { S_constructor, S_proto, S_toString, S_valueOf, S_hasOwnProperty,
      S_isPrototypeOf, S_propertyIsEnumerable, S_toLocaleString,
      S_defineGetter, S_defineSetter, S_lookupGetter, S_lookupSetter }

DigitValue(c) == (CHOOSE k \in 1..10 : Digits[k] = c) - 1

\* a <= b for two canonical decimal numerals: the shorter is the smaller, and
\* numerals of one length compare digit by digit
NumeralLeq(a, b) ==
    \/ Len(a) < Len(b)
    \/ /\ Len(a) = Len(b)
       /\ \/ a = b
          \/ \E k \in 1..Len(a) :
                /\ \A j \in 1..(k - 1) : a[j] = b[j]
                /\ DigitValue(a[k]) < DigitValue(b[k])

\* 2^32 - 2, the largest array index
MaxArrayIndex == <<"4","2","9","4","9","6","7","2","9","4">>

\* a key is an array index when it is the canonical decimal form of an
\* integer in 0..2^32-2
IsArrayIndex(key) ==
    /\ Len(key) >= 1
    /\ \A k \in 1..Len(key) : \E d \in 1..10 : Digits[d] = key[k]
    /\ Len(key) = 1 \/ key[1] # "0"
    /\ NumeralLeq(key, MaxArrayIndex)

HasOwn(obj, key) == \E i \in 1..Len(obj) : obj[i].key = key

OwnIndex(obj, key) == CHOOSE i \in 1..Len(obj) : obj[i].key = key

\* !obj[key]: an own property holds an array and an inherited one holds a
\* function or an object, all truthy; a missing property reads undefined
IsFalsyProperty(obj, key) == ~HasOwn(obj, key) /\ key \notin ObjectPrototypeKeys

\* obj[key] = []
SetEmptyArray(obj, key) ==
    IF HasOwn(obj, key)
    THEN [obj EXCEPT ![OwnIndex(obj, key)].value = <<>>]
    ELSE Append(obj, [key |-> key, value |-> <<>>])

\* obj[key].push is callable: only an own property holds an array
CanPush(obj, key) == HasOwn(obj, key)

\* obj[key].push(v)
PushProperty(obj, key, v) ==
    [obj EXCEPT ![OwnIndex(obj, key)].value = Append(@, v)]

RECURSIVE AscendingByIndex(_)
AscendingByIndex(props) ==
    IF props = {} THEN <<>>
    ELSE LET least == CHOOSE p \in props :
                         \A q \in props : NumeralLeq(p.key, q.key)
         IN  <<least>> \o AscendingByIndex(props \ {least})

\* Object.entries(obj)
ObjectEntries(obj) ==
    AscendingByIndex({obj[i] : i \in {j \in 1..Len(obj) : IsArrayIndex(obj[j].key)}})
    \o SelectSeq(obj, LAMBDA p : ~IsArrayIndex(p.key))

(***************************************************************************)
(* Report renderer.  The document is the sequence of the pieces appended   *)
(* to markdown; a piece is its fixed text (kind) and the values            *)
(* interpolated into it.  The glyphs are written by name.                  *)
(***************************************************************************)
Piece(kind, chars, text, severity, glyph, counts) ==
    [ kind |-> kind, chars |-> chars, text |-> text,
      severity |-> severity, glyph |-> glyph, counts |-> counts ]

\* violation.severity.toUpperCase()
ToUpperCase(severity) ==
    CASE severity = "high" -> "HIGH"
      [] severity = "medium" -> "MEDIUM"
      [] severity = "low" -> "LOW"

\* the conditional expression choosing the glyph
Emoji(severity) ==
    IF severity = "high" THEN "red circle"
    ELSE IF severity = "medium" THEN "yellow circle"
    ELSE "blue circle"

\* the title, the metadata block, the separator and the summary
ReportHeader(rep, commitSha, commitMessage, author) ==
    << Piece("## Compliance Report", <<>>, "", "", "", <<>>),
       Piece("**Commit:**", Substring0(commitSha, 7), "", "", "", <<>>),
       Piece("**Author:**", <<>>, author, "", "", <<>>),
       Piece("**Message:**", <<>>, commitMessage, "", "", <<>>),
       Piece("---", <<>>, "", "", "", <<>>),
       Piece("summary", <<>>, rep.summary.text, "", "", rep.summary.counts) >>

\* the loop filling groupedByFile, from violation k on; threw: a TypeError
\* was raised by push
RECURSIVE GroupByFile(_, _, _)
GroupByFile(obj, violations, k) ==
    IF k > Len(violations) THEN [threw |-> FALSE, obj |-> obj]
    ELSE LET file == violations[k].file
             o1 == IF IsFalsyProperty(obj, file) THEN SetEmptyArray(obj, file) ELSE obj
         IN  IF CanPush(o1, file)
             THEN GroupByFile(PushProperty(o1, file, violations[k]), violations, k + 1)
             ELSE [threw |-> TRUE, obj |-> o1]

RECURSIVE ViolationLines(_, _)
ViolationLines(fileViolations, k) ==
    IF k > Len(fileViolations) THEN <<>>
    ELSE << Piece("- violation", <<>>, fileViolations[k].issue,
                  ToUpperCase(fileViolations[k].severity),
                  Emoji(fileViolations[k].severity), <<>>) >>
         \o ViolationLines(fileViolations, k + 1)

RECURSIVE FileSections(_, _)
FileSections(entries, k) ==
    IF k > Len(entries) THEN <<>>
    ELSE << Piece("#### file", entries[k].key, "", "", "", <<>>) >>
         \o ViolationLines(entries[k].value, 1)
         \o FileSections(entries, k + 1)

\* the body of if (!report.passed)
ViolationsSection(rep) ==
    LET grouped == GroupByFile(<<>>, rep.violations, 1)
    IN  IF grouped.threw THEN [threw |-> TRUE, markdown |-> <<>>]
        ELSE [ threw |-> FALSE,
               markdown |->
                  << Piece("### Violations:", <<>>, "", "", "", <<>>) >>
                  \o FileSections(ObjectEntries(grouped.obj), 1)
                  \o << Piece("closing ---", <<>>, "", "", "", <<>>),
                        Piece("Please address these violations before merging to maintain compliance standards.",
                              <<>>, "", "", "", <<>>) >> ]

\* formatComplianceReport appending the violations section to every report
formatComplianceReport_always(rep, commitSha, commitMessage, author) ==
    LET header == ReportHeader(rep, commitSha, commitMessage, author)
        section == ViolationsSection(rep)
    IN  IF section.threw THEN section
        ELSE [threw |-> FALSE, markdown |-> header \o section.markdown]

\* threw: the call raised a TypeError and returned nothing
formatComplianceReport(rep, commitSha, commitMessage, author) ==
    LET header == ReportHeader(rep, commitSha, commitMessage, author)
    IN  IF ~rep.passed
        THEN LET section == ViolationsSection(rep)
             IN  IF section.threw THEN section
                 ELSE [threw |-> FALSE, markdown |-> header \o section.markdown]
        ELSE [threw |-> FALSE, markdown |-> header]

(***************************************************************************)
(* Inputs: the push events delivered and the replies of the get-commit     *)
(* call.                                                                   *)
(***************************************************************************)
F_bjs == <<"b",".","j","s">>

F_ajs == <<"a",".","j","s">>

F_seven == <<"7">>

F_logo == <<"l","o","g","o",".","p","n","g">>

P_secretAndConsole == <<"c","o","n","s","o","l","e",".","l","o","g","(","1",")","\n","p","w","d"," ","="," ","'","x","'">>

P_lintOff == <<"/","/"," ","@","t","s","-","i","g","n","o","r","e">>

P_clean == <<"r","e","t","u","r","n"," ","a"," ","+"," ","b",";">>

Sha_long == <<"1","2","3","4","5","6","7","8","9","0","a","b","c","d","e","f">>

Sha_short == <<"a","b","c","1","2">>

Sha_third == <<"f","e","d","c","b","a","9","8","7","6">>

\* payload.ref of the pushes delivered: branches main, master, develop, the
\* tag main, and the branch named refs/heads/main
Refs ==
    { S_refsHeads \o S_main,
      S_refsHeads \o S_master,
      S_refsHeads \o <<"d","e","v","e","l","o","p">>,
      <<"r","e","f","s","/","t","a","g","s","/">> \o S_main,
      S_refsHeads \o S_refsHeads \o S_main }

\* the commits a push carries, in order
CommitPool ==
    << [id |-> Sha_long,  message |-> "Add new feature", author |-> "alice"],
       [id |-> Sha_short, message |-> "Add API key",     author |-> "bob"],
       [id |-> Sha_third, message |-> "Fix typo",        author |-> "carol"] >>

CommitsOf(n) == [i \in 1..n |-> CommitPool[((i - 1) % Len(CommitPool)) + 1]]

Payloads == {[ref |-> r, commits |-> CommitsOf(n)] : r \in Refs, n \in 0..MaxCommits}

\* a changed file: patch is <<>> when the reply carries none, else <<text>>
File(filename, patch) == [filename |-> filename, patch |-> patch]

\* the changed files a reply may list
FileOptions ==
    { File(F_bjs,         <<P_secretAndConsole>>),
      File(F_ajs,         <<P_lintOff>>),
      File(F_ajs,         <<P_clean>>),
      File(F_seven,       <<P_secretAndConsole>>),
      File(S_constructor, <<P_secretAndConsole>>),
      File(F_logo,        <<>>) }

FileLists(n) == UNION {[1..k -> FileOptions] : k \in 0..n}

RECURSIVE FilesReturned(_)
FilesReturned(rs) ==
    IF Len(rs) = 0 THEN 0
    ELSE Len(rs[Len(rs)].files) + FilesReturned(SubSeq(rs, 1, Len(rs) - 1))

\* a reply of repos.getCommit: ok is FALSE when the call rejects; hasFiles is
\* FALSE when data.files is undefined
Reply(ok, hasFiles, files) == [ok |-> ok, hasFiles |-> hasFiles, files |-> files]

(***************************************************************************)
(* The push handler.                                                       *)
(***************************************************************************)
\* payload.ref.replace("refs/heads/", "")
Branch(ref) == Replace(ref, S_refsHeads, <<>>)

\* the branch filter with its comparisons inverted
SkipsBranch_inverted(branch) == branch = S_main \/ branch = S_master

\* branch !== "main" && branch !== "master"
SkipsBranch(branch) == branch # S_main /\ branch # S_master

\* allViolations.push(...violations) written as an assignment
PushAll_overwrite(all, violations) == violations

\* allViolations.push(...violations)
PushAll(all, violations) == all \o violations

\* if (file.patch): a string is truthy when it is not empty
HasPatch(file) == Len(file.patch) = 1 /\ Len(file.patch[1]) > 0

\* the loop over commitData.data.files, from file k on
RECURSIVE AnalyzeFiles(_, _, _)
AnalyzeFiles(all, files, k) ==
    IF k > Len(files) THEN all
    ELSE AnalyzeFiles(
            IF HasPatch(files[k])
            THEN PushAll(all, analyzeFileForCompliance(files[k].filename, files[k].patch[1]))
            ELSE all,
            files, k + 1)

\* the labels, whatever the report says
IssueLabels_alwaysViolation(rep) == <<"compliance", "violation">>

IssueLabels(rep) ==
    IF rep.passed THEN <<"compliance", "passed">> ELSE <<"compliance", "violation">>

\* the title is its fixed text and the abbreviated commit id
IssueTitle(rep, latestCommit) ==
    [ text |-> IF rep.passed THEN "Compliance Check Passed - "
               ELSE "Compliance Violations Detected - ",
      sha  |-> Substring0(latestCommit.id, 7) ]

\* the code after the loop over the commits: latestCommit is undefined for a
\* push without commits, and reading latestCommit.id then raises a TypeError
Finish(violations) ==
    LET rep == generateComplianceReport(violations)
        n   == Len(payload.commits)
    IN  /\ report' = <<rep>>
        /\ IF n = 0
           THEN /\ error' = "TypeError"
                /\ pc' = "thrown"
                /\ UNCHANGED <<reportBody, issueCalls>>
           ELSE LET latestCommit == payload.commits[n]
                    body == formatComplianceReport(rep, latestCommit.id,
                               latestCommit.message, latestCommit.author)
                IN  IF body.threw
                    THEN /\ error' = "TypeError"
                         /\ pc' = "thrown"
                         /\ UNCHANGED <<reportBody, issueCalls>>
                    ELSE /\ reportBody' = <<body.markdown>>
                         /\ issueCalls' = Append(issueCalls,
                                [ title  |-> IssueTitle(rep, latestCommit),
                                  body   |-> body.markdown,
                                  labels |-> IssueLabels(rep) ])
                         /\ pc' = "createIssue"
                         /\ UNCHANGED error

\* the next iteration of the loop over payload.commits, or the code after it
NextCommitOrFinish(violations) ==
    IF idx < Len(payload.commits)
    THEN /\ idx' = idx + 1
         /\ getCommitCalls' = Append(getCommitCalls, payload.commits[idx + 1].id)
         /\ pc' = "getCommit"
         /\ UNCHANGED <<report, reportBody, issueCalls, error>>
    ELSE /\ Finish(violations)
         /\ UNCHANGED <<idx, getCommitCalls>>

Init ==
    /\ payload \in Payloads
    /\ pc = "idle"
    /\ idx = 0
    /\ allViolations = <<>>
    /\ getCommitCalls = <<>>
    /\ responses = <<>>
    /\ errorLog = <<>>
    /\ report = <<>>
    /\ reportBody = <<>>
    /\ issueCalls = <<>>
    /\ error = "none"
    /\ probe = [filename |-> <<>>, patch |-> <<>>, analyzed |-> FALSE, violations |-> <<>>]

\* the handler runs until its first await, or to its end
ReceivePush ==
    /\ pc = "idle"
    /\ IF SkipsBranch(Branch(payload.ref))
       THEN /\ pc' = "skipped"
            /\ UNCHANGED <<idx, getCommitCalls, report, reportBody, issueCalls, error>>
       ELSE IF Len(payload.commits) = 0
            THEN /\ Finish(allViolations)
                 /\ UNCHANGED <<idx, getCommitCalls>>
            ELSE /\ idx' = 1
                 /\ getCommitCalls' = <<payload.commits[1].id>>
                 /\ pc' = "getCommit"
                 /\ UNCHANGED <<report, reportBody, issueCalls, error>>
    /\ UNCHANGED <<payload, allViolations, responses, errorLog, probe>>

\* repos.getCommit resolves: the files are analysed, then the loop goes on
GetCommitResolves ==
    /\ pc = "getCommit"
    /\ \E reply \in
          {Reply(TRUE, TRUE, fs) : fs \in FileLists(MaxFiles - FilesReturned(responses))}
          \cup {Reply(TRUE, FALSE, <<>>)} :
          LET all == IF reply.hasFiles
                     THEN AnalyzeFiles(allViolations, reply.files, 1)
                     ELSE allViolations
          IN  /\ responses' = Append(responses, reply)
              /\ allViolations' = all
              /\ NextCommitOrFinish(allViolations')
    /\ UNCHANGED <<payload, errorLog, probe>>

\* repos.getCommit rejects: the catch block logs and the loop goes on
GetCommitRejects ==
    /\ pc = "getCommit"
    /\ responses' = Append(responses, Reply(FALSE, FALSE, <<>>))
    /\ errorLog' = Append(errorLog, payload.commits[idx].id)
    /\ NextCommitOrFinish(allViolations)
    /\ UNCHANGED <<payload, allViolations, probe>>

\* issues.create resolves
IssueCreated ==
    /\ pc = "createIssue"
    /\ pc' = "done"
    /\ UNCHANGED <<payload, idx, allViolations, getCommitCalls, responses, errorLog,
                   report, reportBody, issueCalls, error, probe>>

\* issues.create rejects, and the handler rejects with it
IssueRejected ==
    /\ pc = "createIssue"
    /\ pc' = "thrown"
    /\ error' = "RequestError"
    /\ UNCHANGED <<payload, idx, allViolations, getCommitCalls, responses, errorLog,
                   report, reportBody, issueCalls, probe>>

Next ==
    \/ ReceivePush
    \/ GetCommitResolves
    \/ GetCommitRejects
    \/ IssueCreated
    \/ IssueRejected

Spec == Init /\ [][Next]_vars

(***************************************************************************)
(* The rule engine on its own, over every diff text made of up to MaxFrags *)
(* fragments.                                                              *)
(***************************************************************************)
G_pwd == <<"p","w","d","=","'","x","'">>

G_apiKey == <<"A","p","i","-","K","e","y"," ","="," ","\"","k","\"">>

G_token == <<"t","o","k","e","n","=","'","t","'">>

G_aws == <<"A","W","S","_","S","E","C","R","E","T","_","A","C","C","E","S","S","_","K","E","Y">>

G_console == <<"c","o","n","s","o","l","e",".","w","a","r","n">>

G_fixme == <<"f","i","x","m","e",":">>

G_nocheck == <<"@","t","s","-","n","o","c","h","e","c","k">>

G_eval == <<"e","v","a","l"," ","(">>

G_emptyLiteral == <<"p","w","d","=","'","'">>

G_upperConsole == <<"C","o","n","s","o","l","e",".","l","o","g">>

G_wordChar == <<"x">>

G_space == <<" ">>

\* one match of each rule, and near misses: an empty literal, a console call
\* in another case, a word character, a blank
Fragments ==
    { G_pwd, G_apiKey, G_token, G_aws, G_console, G_fixme, G_nocheck, G_eval,
      G_emptyLiteral, G_upperConsole, G_wordChar, G_space }

RECURSIVE Concat(_)
Concat(parts) ==
    IF Len(parts) = 0 THEN <<>> ELSE parts[1] \o Concat(Tail(parts))

DiffTexts == {Concat(parts) : parts \in UNION {[1..k -> Fragments] : k \in 0..MaxFrags}}

InitDetect ==
    /\ payload = [ref |-> S_refsHeads \o S_main, commits |-> <<>>]
    /\ pc = "idle"
    /\ idx = 0
    /\ allViolations = <<>>
    /\ getCommitCalls = <<>>
    /\ responses = <<>>
    /\ errorLog = <<>>
    /\ report = <<>>
    /\ reportBody = <<>>
    /\ issueCalls = <<>>
    /\ error = "none"
    /\ probe \in {[filename |-> f, patch |-> t, analyzed |-> FALSE, violations |-> <<>>] :
                     f \in {F_bjs, S_constructor}, t \in DiffTexts}

\* one call of analyzeFileForCompliance
Analyze ==
    /\ ~probe.analyzed
    /\ probe' = [probe EXCEPT !.analyzed = TRUE,
                              !.violations = analyzeFileForCompliance(probe.filename, probe.patch)]
    /\ UNCHANGED handlerVars

NextDetect == Analyze

SpecDetect == InitDetect /\ [][NextDetect]_vars

(***************************************************************************)
(* Properties.                                                             *)
(***************************************************************************)
\* the handler has left the loop over the commits
PastLoop == pc \in {"createIssue", "done", "thrown"}

\* the files of the replies that resolved, in commit order then file order
RECURSIVE RetrievedFiles(_)
RetrievedFiles(rs) ==
    IF Len(rs) = 0 THEN <<>>
    ELSE (IF rs[1].ok /\ rs[1].hasFiles THEN rs[1].files ELSE <<>>)
         \o RetrievedFiles(Tail(rs))

\* detect over the files that carry a diff fragment, concatenated
RECURSIVE DetectAll(_)
DetectAll(files) ==
    IF Len(files) = 0 THEN <<>>
    ELSE (IF Len(files[1].patch) = 1
          THEN analyzeFileForCompliance(files[1].filename, files[1].patch[1])
          ELSE <<>>)
         \o DetectAll(Tail(files))

\* C1: a push whose ref, with the first "refs/heads/" removed, is neither
\* main nor master is never processed: no get-commit call is made, no report
\* is produced and no issue is created for it.
C1_BranchFilter ==
    Branch(payload.ref) \notin {S_main, S_master}
    => /\ getCommitCalls = <<>>
       /\ report = <<>>
       /\ issueCalls = <<>>
       /\ pc \in {"idle", "skipped"}

C1_Witness ==
    /\ pc = "skipped"
    /\ payload.ref = S_refsHeads \o <<"d","e","v","e","l","o","p">>
    /\ Len(payload.commits) > 0

\* C2: once a get-commit call of a processed push has failed, the handler
\* still asks for every later commit, keeps exactly the violations of the
\* commits that were retrieved, builds the report and goes on to create the
\* issue, and the handler does not end with an error.
C2_RetrievalFailureRecovered ==
    (PastLoop /\ \E i \in 1..Len(responses) : ~responses[i].ok)
    => /\ Len(getCommitCalls) = Len(payload.commits)
       /\ Len(responses) = Len(payload.commits)
       /\ allViolations = DetectAll(RetrievedFiles(responses))
       /\ Len(report) = 1
       /\ Len(issueCalls) = 1
       /\ error # "TypeError"

\* the part of C2 the catch block alone decides: after a failed get-commit
\* call every commit has still been asked for, the violations are exactly
\* those of the retrieved commits, and the report has been built
RetrievalFailureCaught ==
    (PastLoop /\ \E i \in 1..Len(responses) : ~responses[i].ok)
    => /\ Len(getCommitCalls) = Len(payload.commits)
       /\ Len(errorLog) = Cardinality({i \in 1..Len(responses) : ~responses[i].ok})
       /\ allViolations = DetectAll(RetrievedFiles(responses))
       /\ Len(report) = 1
       /\ error \in {"none", "TypeError", "RequestError"}
       /\ error = "TypeError" => Len(reportBody) = 0

\* C3: a push to main or master without commits ends without an error and
\* with a passing report.
C3_EmptyPushPasses ==
    (pc # "idle" /\ ~SkipsBranch(Branch(payload.ref)) /\ Len(payload.commits) = 0)
    => /\ pc # "thrown"
       /\ error = "none"
       /\ Len(report) = 1
       /\ report[1].passed
       /\ report[1].violations = <<>>

\* C4: every issue created carries exactly the two labels compliance and one
\* of passed or violation, passed exactly when the report passed, and its
\* title is the Passed title exactly when the report passed and the
\* Violations Detected title otherwise.
C4_IssueLabelsAgree ==
    \A i \in 1..Len(issueCalls) :
       LET call == issueCalls[i]
       IN  /\ Len(report) = 1
           /\ Len(call.labels) = 2
           /\ call.labels[1] = "compliance"
           /\ call.labels[2] \in {"passed", "violation"}
           /\ call.labels[2] = "passed" <=> report[1].passed
           /\ call.title.text = "Compliance Check Passed - " <=> report[1].passed
           /\ call.title.text = "Compliance Violations Detected - " <=> ~report[1].passed

C4_Witness ==
    /\ pc = "done"
    /\ Len(issueCalls) = 1
    /\ issueCalls[1].labels = <<"compliance", "passed">>
    /\ \E i \in 1..Len(responses) : \E k \in 1..Len(responses[i].files) :
          Len(responses[i].files[k].patch) = 1

\* C5: the report built from a violation sequence has passed exactly when the
\* sequence is empty, and carries the sequence itself.
C5_ReportInvariant ==
    Len(report) = 1
    => /\ report[1].passed = (Len(report[1].violations) = 0)
       /\ report[1].violations = allViolations

C5_Witness ==
    /\ Len(report) = 1
    /\ Len(allViolations) > 0
    /\ \A i \in 1..Len(allViolations) : allViolations[i].severity # "high"
    /\ ~report[1].passed

HasViolationsHeading(doc) == \E i \in 1..Len(doc) : doc[i].kind = "### Violations:"

\* the violations section: the heading, file subsections each with at least
\* one violation line, the closing separator and the advisory line
SectionWellFormed(doc) ==
    /\ Len(doc) >= 11
    /\ doc[7].kind = "### Violations:"
    /\ doc[8].kind = "#### file"
    /\ \A i \in 8..(Len(doc) - 2) :
          /\ doc[i].kind \in {"#### file", "- violation"}
          /\ doc[i].kind = "#### file" => doc[i + 1].kind = "- violation"
    /\ doc[Len(doc) - 1].kind = "closing ---"
    /\ doc[Len(doc)].kind =
          "Please address these violations before merging to maintain compliance standards."
    /\ \A i \in 1..Len(doc) : doc[i].kind = "### Violations:" => i = 7

\* C6: a rendered document holds a violations section exactly when the report
\* did not pass; the document of a passing report ends with the summary.
C6_SectionIffFailed ==
    Len(reportBody) = 1
    => LET doc == reportBody[1]
       IN  /\ HasViolationsHeading(doc) <=> ~report[1].passed
           /\ report[1].passed => Len(doc) = 6 /\ doc[6].kind = "summary"
           /\ ~report[1].passed => SectionWellFormed(doc)

C6_Witness ==
    /\ Len(reportBody) = 1
    /\ ~report[1].passed
    /\ HasViolationsHeading(reportBody[1])

\* the distinct files of a violation sequence, in order of first occurrence
RECURSIVE FirstOccurrences(_, _)
FirstOccurrences(seen, violations) ==
    IF Len(violations) = 0 THEN seen
    ELSE FirstOccurrences(
            IF \E j \in 1..Len(seen) : seen[j] = violations[1].file
            THEN seen ELSE Append(seen, violations[1].file),
            Tail(violations))

\* a file heading and the issues of the file's violations, in their order
RECURSIVE SectionsInOrder(_, _)
SectionsInOrder(files, violations) ==
    IF Len(files) = 0 THEN <<>>
    ELSE LET own == SelectSeq(violations, LAMBDA v : v.file = files[1])
         IN  << <<"#### file", files[1], "">> >>
             \o [i \in 1..Len(own) |-> <<"- violation", <<>>, own[i].issue>>]
             \o SectionsInOrder(Tail(files), violations)

\* C7: the subsections of a rendered failing report are one per distinct
\* file, in order of first occurrence in the violation sequence, each with
\* the file's violations in their order.
C7_FilesInFirstOccurrenceOrder ==
    (Len(reportBody) = 1 /\ ~report[1].passed)
    => LET doc  == reportBody[1]
           body == SubSeq(doc, 8, Len(doc) - 2)
       IN  [i \in 1..Len(body) |-> <<body[i].kind, body[i].chars, body[i].text>>]
           = SectionsInOrder(FirstOccurrences(<<>>, report[1].violations),
                             report[1].violations)

\* C8: rendering never fails: whenever the handler of a push with commits has
\* left the loop, the report was rendered into a document.
C8_RenderIsTotal ==
    (PastLoop /\ Len(payload.commits) > 0) => Len(reportBody) = 1

\* the catalog of the specification: issue text and severity of rule k
RuleIssue ==
    << "Hardcoded password detected",
       "Hardcoded API key detected",
       "Hardcoded secret/token detected",
       "AWS credentials detected",
       "Console statements detected - use proper logging framework",
       "TODO/FIXME comments detected - should be tracked as issues",
       "Linting rules disabled - fix the underlying issue instead",
       "Unsafe eval() usage detected" >>

RuleSeverity == <<"high", "high", "high", "high", "low", "low", "medium", "high">>

RuleMatches(k, text) ==
    CASE k = 1 -> TestPassword(text)
      [] k = 2 -> TestApiKey(text)
      [] k = 3 -> TestSecret(text)
      [] k = 4 -> TestAws(text)
      [] k = 5 -> TestConsole(text)
      [] k = 6 -> TestTodo(text)
      [] k = 7 -> TestLintDisabled(text)
      [] k = 8 -> TestEval(text)

RuleNumber(issue) == CHOOSE k \in 1..8 : RuleIssue[k] = issue

\* C9: detect returns exactly one violation, with the rule's issue text and
\* severity and the given file name, for every rule whose pattern matches the
\* diff text, however often it matches, none for the other rules, and the
\* violations are in catalog order.
C9_OneViolationPerRule ==
    probe.analyzed
    => LET vs == probe.violations
       IN  /\ \A k \in 1..8 :
                 Cardinality({i \in 1..Len(vs) : vs[i].issue = RuleIssue[k]})
                 = IF RuleMatches(k, probe.patch) THEN 1 ELSE 0
           /\ \A i \in 1..Len(vs) :
                 \E k \in 1..8 :
                    vs[i] = Violation(probe.filename, RuleIssue[k], RuleSeverity[k])
           /\ \A i \in 1..Len(vs) : \A j \in (i + 1)..Len(vs) :
                 RuleNumber(vs[i].issue) < RuleNumber(vs[j].issue)

C9_Witness ==
    /\ probe.analyzed
    /\ TodoOccurrences(probe.patch) >= 2
    /\ Len(probe.violations) = 1
    /\ probe.violations[1].issue = RuleIssue[6]

\* C10: the violation sequence of the report is the concatenation, in commit
\* order then file order, of detect over the files of the retrieved commits
\* that carry a diff fragment.
C10_ViolationsAreConcatenation ==
    Len(report) = 1 => report[1].violations = DetectAll(RetrievedFiles(responses))

C10_Witness ==
    /\ Len(report) = 1
    /\ Len(responses) = 2
    /\ \A i \in 1..2 : responses[i].ok /\ Len(responses[i].files) = 1
    /\ responses[1].files[1].filename # responses[2].files[1].filename
    /\ Len(DetectAll(responses[1].files)) > 0
    /\ Len(DetectAll(responses[2].files)) > 0
    /\ Len(report[1].violations) > 2

====
